---- MODULE Spec2Model ----
(***************************************************************************)
(* A model of the flow-augmented variational inference core of             *)
(* gradient-boosted-flows: the loss layer (src/optimization/loss.py) and   *)
(* the RealNVP flow compositions (src/models/realnvp.py).                  *)
(*                                                                         *)
(* Numbers.  Log-densities are real numbers in the program; here they are  *)
(* integers in fixed point (one unit = one nat, rounded).  A division by   *)
(* the batch size is kept exact as a fraction [num, den].  Latent values   *)
(* of the flow live in the prime field Z_P, where an affine map            *)
(* v * exp(s) + t is invertible exactly as it is over the reals: exp is    *)
(* the homomorphism s |-> G^s from (Z, +) onto the units of Z_P, so        *)
(* exp(a + b) = exp(a) * exp(b) and exp(-s) is the inverse of exp(s).      *)
(***************************************************************************)
EXTENDS Integers, Sequences, FiniteSets, TLC

VARIABLES
    args,            \* loss layer: [input_type, regularization_rate]
    inp,             \* loss layer: the tensors handed to the loss functions
    beta,            \* loss layer: weight of the kl term
    first_component, \* boosted loss: training the first component
    ret_loss,        \* outcome of calculate_loss
    ret_array,       \* outcome of calculate_loss_array
    ret_boosted,     \* outcome of calculate_boosted_loss
    model,           \* flow: the constructed RealNVPFlow / RealNVPVAE object
    x_in,            \* flow: the input vector of the pass
    ret_encode,      \* outcome of RealNVPFlow.encode
    ret_decode,      \* outcome of RealNVPFlow.decode on encode's z_K
    ret_flow         \* outcome of RealNVPVAE.flow

lossVars == <<args, inp, beta, first_component, ret_loss, ret_array, ret_boosted>>
flowVars == <<model, x_in, ret_encode, ret_decode, ret_flow>>
vars == <<lossVars, flowVars>>

-----------------------------------------------------------------------------
(* Bounds of the model *)

MaxBatch == 2

-----------------------------------------------------------------------------
(* Generic helpers: sums, fractions, outcomes of a call *)

RECURSIVE SumSeq(_)
SumSeq(s) == IF s = <<>> THEN 0 ELSE Head(s) + SumSeq(Tail(s))

\* a / float(b)
Div(a, b) == [num |-> a, den |-> b]
RatEq(p, q) == p.num * q.den = q.num * p.den
RatIsZero(p) == p.num = 0

NotCalled == [status |-> "none", exc |-> "", msg |-> <<>>, value |-> <<>>, evaluated |-> {}]
Returned(v, ev) == [status |-> "returned", exc |-> "", msg |-> <<>>, value |-> v, evaluated |-> ev]
Raised(e, m, ev) == [status |-> "raised", exc |-> e, msg |-> m, value |-> <<>>, evaluated |-> ev]

\* a pass of a flow not yet run; evaluated lists the calls of the coupling step
NoPass == [status |-> "none", exc |-> "", msg |-> <<>>, value |-> <<>>, evaluated |-> <<>>]

None == [is_none |-> TRUE, v |-> <<>>]
Some(t) == [is_none |-> FALSE, v |-> t]

-----------------------------------------------------------------------------
(* utils.distributions / utils.utilities: base densities, per example       *)
(* (dim=1 sums over the features of one example)                            *)

Log2Pi == 2

\* log(v + eps): finite for every variance, v = 1 -> 0, v = 3 -> 1 (rounded)
safe_log(v) == [i \in 1..Len(v) |-> [j \in 1..Len(v[i]) |->
                 CASE v[i][j] <= 0 -> -16
                   [] v[i][j] = 1 -> 0
                   [] OTHER -> 1]]

\* exp of a log-variance, the inverse table of safe_log
ExpLogVar(lv) == CASE lv = 0 -> 1 [] lv = 1 -> 3 [] OTHER -> 1

NormalLogPdf(v, m, lv) ==
    0 - ((Log2Pi + lv + ((v - m) * (v - m)) \div ExpLogVar(lv)) \div 2)

log_normal_diag(z, mean, log_var) ==
    [i \in 1..Len(z) |->
        SumSeq([j \in 1..Len(z[i]) |-> NormalLogPdf(z[i][j], mean[i][j], log_var[i][j])])]

log_normal_standard(z) ==
    [i \in 1..Len(z) |-> SumSeq([j \in 1..Len(z[i]) |-> NormalLogPdf(z[i][j], 0, 0)])]

\* -log(p) for a Bernoulli parameter p given in percent
NegLog(p) == CASE p <= 10 -> 2 [] p <= 50 -> 1 [] OTHER -> 0

LogBernoulliElem(t, p) == 0 - (t * NegLog(p) + (1 - t) * NegLog(100 - p))

log_bernoulli(target, p) ==
    [i \in 1..Len(target) |->
        SumSeq([j \in 1..Len(target[i]) |-> LogBernoulliElem(target[i][j], p[i][j])])]

\* nn.BCELoss(reduction='sum'): the summed binary cross entropy of the batch
BCELossSum(x_recon, x) ==
    SumSeq([i \in 1..Len(x) |->
        SumSeq([j \in 1..Len(x[i]) |-> 0 - LogBernoulliElem(x[i][j], x_recon[i][j])])])

\* torch.sum over a tensor of rank 1 or 2, stored as rows
TorchSum(t) == SumSeq([i \in 1..Len(t.rows) |-> SumSeq(t.rows[i])])

-----------------------------------------------------------------------------
(* src/optimization/loss.py: the standard negative ELBO *)

binary_neg_elbo(x_recon, x, z_mu, z_var, z_0, z_k, ldj, b) ==
    LET recon_loss == BCELossSum(x_recon, x)
        log_p_zk == log_normal_standard(z_k)
        log_q_z0 == log_normal_diag(z_0, z_mu, safe_log(z_var))
        summed_logs == SumSeq([i \in 1..Len(x) |-> log_q_z0[i] - log_p_zk[i]])
        summed_ldj == TorchSum(ldj)
        kl == summed_logs - summed_ldj
        loss == recon_loss + b * kl
        batch_size == Len(x)
    IN  [loss |-> Div(loss, batch_size),
         rec |-> Div(recon_loss, batch_size),
         kl |-> Div(kl, batch_size)]

binary_loss_array(x_recon, x, z_mu, z_var, z_0, z_k, ldj, b) ==
    LET batch_size == Len(x)
        ldj1 == IF ldj.rank > 1
                THEN [i \in 1..Len(ldj.rows) |-> SumSeq(ldj.rows[i])]
                ELSE [i \in 1..Len(ldj.rows) |-> ldj.rows[i][1]]
        lb == log_bernoulli(x, x_recon)
        bce == [i \in 1..batch_size |-> 0 - lb[i]]
        log_p_zk == log_normal_standard(z_k)
        log_q_z0 == log_normal_diag(z_0, z_mu, safe_log(z_var))
        logs == [i \in 1..batch_size |-> log_q_z0[i] - log_p_zk[i]]
    IN  [i \in 1..batch_size |-> bce[i] + b * (logs[i] - ldj1[i])]

\* Binding of a Python call: the keywords the callee has no parameter for
UnexpectedKeywords(params, kwargs) == kwargs \ {params[i] : i \in 1..Len(params)}

cross_entropy_params == <<"x", "target", "reduction">>

\* forward(input, target) of nn.CrossEntropyLoss, as called on line 177
CrossEntropyLoss_forward_params == <<"input", "target">>

NllElem(p, t) == NegLog(IF t > 0 THEN p ELSE 100 - p)

cross_entropy(x, target, reduction) ==
    LET per == [i \in 1..Len(x) |-> [j \in 1..Len(x[i]) |-> NllElem(x[i][j], target[i][j])]]
    IN  IF reduction = "sum"
        THEN SumSeq([i \in 1..Len(per) |-> SumSeq(per[i])])
        ELSE per

\* target = (x * (num_classes - 1)).long()
num_classes == 256
Target(x) == [i \in 1..Len(x) |-> [j \in 1..Len(x[i]) |-> x[i][j] * (num_classes - 1)]]

multinomial_neg_elbo(x_logit, x, z_mu, z_var, z_0, z_k, ldj, b) ==
    LET batch_size == Len(x)
        target == Target(x)
        bad == UnexpectedKeywords(cross_entropy_params, {"input", "target", "reduction"})
        ce == cross_entropy(x_logit, target, "sum")
        log_p_zk == log_normal_standard(z_k)
        log_q_z0 == log_normal_diag(z_0, z_mu, safe_log(z_var))
        summed_logs == SumSeq([i \in 1..batch_size |-> log_q_z0[i] - log_p_zk[i]])
        summed_ldj == TorchSum(ldj)
        kl == summed_logs - summed_ldj
        loss == ce + b * kl
    IN  IF bad # {}
        THEN Raised("TypeError",
                    <<"cross_entropy() got an unexpected keyword argument", CHOOSE k \in bad : TRUE>>,
                    {"multinomial_neg_elbo"})
        ELSE Returned([loss |-> Div(loss, batch_size),
                       rec |-> Div(ce, batch_size),
                       kl |-> Div(kl, batch_size)],
                      {"multinomial_neg_elbo", "cross_entropy"})

multinomial_loss_array(x_logit, x, z_mu, z_var, z_0, z_k, ldj, b) ==
    LET batch_size == Len(x)
        target == Target(x)
        bad == UnexpectedKeywords(CrossEntropyLoss_forward_params, {"reduction"})
        ce0 == cross_entropy(x_logit, target, "none")
        ce == [i \in 1..batch_size |-> SumSeq(ce0[i])]
        log_p_zk == log_normal_standard(z_k)
        log_q_z0 == log_normal_diag(z_0, z_mu, safe_log(z_var))
        logs == [i \in 1..batch_size |-> log_q_z0[i] - log_p_zk[i]]
    IN  IF bad # {}
        THEN Raised("TypeError",
                    <<"forward() got an unexpected keyword argument", CHOOSE k \in bad : TRUE>>,
                    {"multinomial_loss_array"})
        ELSE Returned([i \in 1..batch_size |-> ce[i] + b * (logs[i] - ldj.rows[i][1])],
                      {"multinomial_loss_array"})

\* 'Invalid input type for calculate loss: %s.' % args.input_type
InvalidInputTypeMsg(input_type) ==
    <<"Invalid input type for calculate loss: ", input_type, ".">>

\* calculate_loss with its error built but not raised, so that the function
\* goes on to return names it never bound
calculate_loss_unraised(x_recon, x, z_mu, z_var, z_0, z_k, ldj, a, b) ==
    IF a.input_type = "binary"
    THEN Returned(binary_neg_elbo(x_recon, x, z_mu, z_var, z_0, z_k, ldj, b),
                  {"binary_neg_elbo"})
    ELSE IF a.input_type = "multinomial"
    THEN multinomial_neg_elbo(x_recon, x, z_mu, z_var, z_0, z_k, ldj, b)
    ELSE Raised("UnboundLocalError",
                <<"local variable 'loss' referenced before assignment">>, {})

calculate_loss(x_recon, x, z_mu, z_var, z_0, z_k, ldj, a, b) ==
    IF a.input_type = "binary"
    THEN Returned(binary_neg_elbo(x_recon, x, z_mu, z_var, z_0, z_k, ldj, b),
                  {"binary_neg_elbo"})
    ELSE IF a.input_type = "multinomial"
    THEN multinomial_neg_elbo(x_recon, x, z_mu, z_var, z_0, z_k, ldj, b)
    ELSE Raised("ValueError", InvalidInputTypeMsg(a.input_type), {})

calculate_loss_array(x_recon, x, z_mu, z_var, z_0, z_k, ldj, a) ==
    IF a.input_type = "binary"
    THEN Returned(binary_loss_array(x_recon, x, z_mu, z_var, z_0, z_k, ldj, 1),
                  {"binary_loss_array"})
    ELSE IF a.input_type = "multinomial"
    THEN multinomial_loss_array(x_recon, x, z_mu, z_var, z_0, z_k, ldj, 1)
    ELSE Raised("ValueError", InvalidInputTypeMsg(a.input_type), {})

-----------------------------------------------------------------------------
(* src/optimization/loss.py: the boosted negative ELBO *)

ClampFloor == -10

Max(a, b) == IF a >= b THEN a ELSE b

\* boosted_binary_neg_elbo with the entropy weighted by regularization_rate
\* on the first-component path too
boosted_binary_neg_elbo_weighted(x_recon, x, z_mu, z_var, z_g, g_ldj, z_G, G_ldj, regularization_rate, first, b) ==
    LET recon_loss == BCELossSum(x_recon, x)
        n == Len(x)
        log_p_zk == SumSeq(log_normal_standard(z_g[Len(z_g)]))
        log_g_base == log_normal_diag(z_g[1], z_mu, safe_log(z_var))
        log_g_z == [i \in 1..n |-> log_g_base[i] - g_ldj[i]]
        first_path == first \/ (z_G.is_none /\ G_ldj.is_none)
        log_G_base == log_normal_diag(z_G.v[1], z_mu, safe_log(z_var))
        log_G_z_else == SumSeq([i \in 1..n |-> Max(log_G_base[i] - G_ldj.v[i], ClampFloor)])
        log_ratio_else == SumSeq([i \in 1..n |-> log_G_z_else - log_g_z[i]])
        entropy == SumSeq([i \in 1..n |-> regularization_rate * log_g_z[i]])
        log_G_z == IF first_path THEN 0 ELSE log_G_z_else
        log_ratio == IF first_path THEN 0 ELSE log_ratio_else
        loss == recon_loss + log_G_z + b * (entropy - log_p_zk)
    IN  IF ~first_path /\ z_G.is_none
        THEN Raised("TypeError", <<"'NoneType' object is not subscriptable">>,
                    {"boosted_binary_neg_elbo"})
        ELSE IF ~first_path /\ G_ldj.is_none
        THEN Raised("TypeError", <<"unsupported operand type(s) for -">>,
                    {"boosted_binary_neg_elbo"})
        ELSE Returned([loss |-> Div(loss, n),
                       recon_loss |-> Div(recon_loss, n),
                       log_G_z |-> Div(log_G_z, n),
                       log_p_zk |-> Div(0 - log_p_zk, n),
                       entropy |-> Div(entropy, n),
                       log_ratio |-> Div(log_ratio, n)],
                      {"boosted_binary_neg_elbo"})

boosted_binary_neg_elbo(x_recon, x, z_mu, z_var, z_g, g_ldj, z_G, G_ldj, regularization_rate, first, b) ==
    LET recon_loss == BCELossSum(x_recon, x)
        n == Len(x)
        \* z_g[-1] is the last tensor of the list z_g, z_g[0] the first
        log_p_zk == SumSeq(log_normal_standard(z_g[Len(z_g)]))
        log_g_base == log_normal_diag(z_g[1], z_mu, safe_log(z_var))
        log_g_z == [i \in 1..n |-> log_g_base[i] - g_ldj[i]]
        first_path == first \/ (z_G.is_none /\ G_ldj.is_none)
        \* the else branch
        log_G_base == log_normal_diag(z_G.v[1], z_mu, safe_log(z_var))
        log_G_z_else == SumSeq([i \in 1..n |-> Max(log_G_base[i] - G_ldj.v[i], ClampFloor)])
        \* a 0-dim tensor minus a vector broadcasts to a vector
        log_ratio_else == SumSeq([i \in 1..n |-> log_G_z_else - log_g_z[i]])
        entropy_else == SumSeq([i \in 1..n |-> regularization_rate * log_g_z[i]])
        entropy == IF first_path THEN SumSeq(log_g_z) ELSE entropy_else
        log_G_z == IF first_path THEN 0 ELSE log_G_z_else
        log_ratio == IF first_path THEN 0 ELSE log_ratio_else
        loss == recon_loss + log_G_z + b * (entropy - log_p_zk)
        batch_size == n
    IN  IF ~first_path /\ z_G.is_none
        THEN Raised("TypeError", <<"'NoneType' object is not subscriptable">>,
                    {"boosted_binary_neg_elbo"})
        ELSE IF ~first_path /\ G_ldj.is_none
        THEN Raised("TypeError", <<"unsupported operand type(s) for -">>,
                    {"boosted_binary_neg_elbo"})
        ELSE Returned([loss |-> Div(loss, batch_size),
                       recon_loss |-> Div(recon_loss, batch_size),
                       log_G_z |-> Div(log_G_z, batch_size),
                       log_p_zk |-> Div(0 - log_p_zk, batch_size),
                       entropy |-> Div(entropy, batch_size),
                       log_ratio |-> Div(log_ratio, batch_size)],
                      {"boosted_binary_neg_elbo"})

calculate_boosted_loss(x_recon, x, z_mu, z_var, z_g, g_ldj, z_G, G_ldj, a, first, b) ==
    LET r == boosted_binary_neg_elbo(x_recon, x, z_mu, z_var, z_g, g_ldj, z_G, G_ldj,
                                     a.regularization_rate, first, b)
        \* the names bound in the function's frame when it reaches its return
        bound == IF a.input_type = "binary"
                 THEN {"loss", "recon", "log_G", "log_p", "entropy", "log_ratio"}
                 ELSE {}
    IN  IF a.input_type = "binary" /\ r.status = "raised"
        THEN r
        ELSE IF "loss" \notin bound
        THEN Raised("UnboundLocalError",
                    <<"local variable 'loss' referenced before assignment">>, {})
        ELSE r

-----------------------------------------------------------------------------
(* The loss layer as a state machine: Init draws the inputs, every action   *)
(* is one call of a function of loss.py on them.                            *)

InputTypes == {"binary", "multinomial", "foo", "Binary"}
Betas == {1, 2}
Rates == {1, 2}

Row(v) == <<v>>

\* one example of a batch of the standard loss
Examples ==
    [x_recon : {10, 90}, x : {0, 1}, z_var : {1, 3}, z_0 : {1}, ldj : {0, 1}]

\* one example of a batch of the boosted loss
BoostedExamples ==
    [g_ldj : {0, 1}, z_G0 : {0, 5}, G_ldj : {0, 1}]

StandardInput(n, e, rank) ==
    [x_recon |-> [i \in 1..n |-> Row(e[i].x_recon)],
     x       |-> [i \in 1..n |-> Row(e[i].x)],
     z_mu    |-> [i \in 1..n |-> Row(0)],
     z_var   |-> [i \in 1..n |-> Row(e[i].z_var)],
     z_g     |-> <<[i \in 1..n |-> Row(e[i].z_0)],
                   [i \in 1..n |-> Row(e[i].z_0 + e[i].ldj)]>>,
     ldj     |-> [rank |-> rank, rows |-> [i \in 1..n |-> Row(e[i].ldj)]],
     g_ldj   |-> [i \in 1..n |-> e[i].ldj],
     z_G     |-> None,
     G_ldj   |-> None]

BoostedInput(n, e, zG, Gl) ==
    [x_recon |-> [i \in 1..n |-> Row(90)],
     x       |-> [i \in 1..n |-> Row(1)],
     z_mu    |-> [i \in 1..n |-> Row(0)],
     z_var   |-> [i \in 1..n |-> Row(1)],
     z_g     |-> <<[i \in 1..n |-> Row(1)],
                   [i \in 1..n |-> Row(1 + e[i].g_ldj)]>>,
     ldj     |-> [rank |-> 1, rows |-> [i \in 1..n |-> Row(e[i].g_ldj)]],
     g_ldj   |-> [i \in 1..n |-> e[i].g_ldj],
     z_G     |-> IF zG THEN Some(<<[i \in 1..n |-> Row(e[i].z_G0)]>>) ELSE None,
     G_ldj   |-> IF Gl THEN Some([i \in 1..n |-> e[i].G_ldj]) ELSE None]

NoModel == [kind |-> "none"]

FlowIdle ==
    /\ model = NoModel
    /\ x_in = <<>>
    /\ ret_encode = NoPass
    /\ ret_decode = NoPass
    /\ ret_flow = NoPass

Init ==
    /\ \E n \in 1..MaxBatch : \E e \in [1..n -> Examples] : \E rank \in {1, 2} :
          inp = StandardInput(n, e, rank)
    /\ \E t \in InputTypes : args = [input_type |-> t, regularization_rate |-> 1]
    /\ beta \in Betas
    /\ first_component = TRUE
    /\ ret_loss = NotCalled
    /\ ret_array = NotCalled
    /\ ret_boosted = NotCalled
    /\ FlowIdle

InitBoost ==
    /\ \E n \in 1..MaxBatch : \E e \in [1..n -> BoostedExamples] :
       \E zG \in BOOLEAN : \E Gl \in BOOLEAN :
          inp = BoostedInput(n, e, zG, Gl)
    /\ \E t \in InputTypes : \E r \in Rates :
          args = [input_type |-> t, regularization_rate |-> r]
    /\ beta \in Betas
    /\ first_component \in BOOLEAN
    /\ ret_loss = NotCalled
    /\ ret_array = NotCalled
    /\ ret_boosted = NotCalled
    /\ FlowIdle

CalculateLoss ==
    /\ ret_loss = NotCalled
    /\ ret_loss' = calculate_loss(inp.x_recon, inp.x, inp.z_mu, inp.z_var,
                                  inp.z_g[1], inp.z_g[2], inp.ldj, args, beta)
    /\ UNCHANGED <<args, inp, beta, first_component, ret_array, ret_boosted, flowVars>>

CalculateLossArray ==
    /\ ret_array = NotCalled
    /\ ret_array' = calculate_loss_array(inp.x_recon, inp.x, inp.z_mu, inp.z_var,
                                         inp.z_g[1], inp.z_g[2], inp.ldj, args)
    /\ UNCHANGED <<args, inp, beta, first_component, ret_loss, ret_boosted, flowVars>>

CalculateBoostedLoss ==
    /\ ret_boosted = NotCalled
    /\ ret_boosted' = calculate_boosted_loss(inp.x_recon, inp.x, inp.z_mu, inp.z_var,
                                             inp.z_g, inp.g_ldj, inp.z_G, inp.G_ldj,
                                             args, first_component, beta)
    /\ UNCHANGED <<args, inp, beta, first_component, ret_loss, ret_array, flowVars>>

Next == CalculateLoss \/ CalculateLossArray

Spec == Init /\ [][Next]_vars

NextBoost == CalculateBoostedLoss

SpecBoost == InitBoost /\ [][NextBoost]_vars

-----------------------------------------------------------------------------
(* Properties of the loss layer *)

BatchSize == Len(inp.x)
Names(r, t) == \E i \in 1..Len(r.msg) : r.msg[i] = t
Recognized == {"binary", "multinomial"}

\* C2: for identical inputs and beta = 1, the sum over the batch of the vector
\* binary_loss_array returns equals the loss binary_neg_elbo returns.
C2_ArraySumEqualsNegElbo ==
    (/\ args.input_type = "binary"
     /\ beta = 1
     /\ ret_loss.status = "returned"
     /\ ret_array.status = "returned")
    => RatEq(Div(SumSeq(ret_array.value), 1), ret_loss.value.loss)

\* C3: with input_type binary or multinomial, calculate_loss returns the triple
\* (loss, rec, kl) and calculate_loss_array one loss per example; neither
\* they nor the formulas and helpers they call raise.
C3_RecognizedTypesNeverRaise ==
    args.input_type \in Recognized =>
        /\ ret_loss.status # "raised"
        /\ ret_array.status # "raised"
        /\ ret_loss.status = "returned" => DOMAIN ret_loss.value = {"loss", "rec", "kl"}
        /\ ret_array.status = "returned" => Len(ret_array.value) = BatchSize

DispatchRejects(r) ==
    r.status # "none" =>
        /\ r.status = "raised"
        /\ r.exc = "ValueError"
        /\ Names(r, args.input_type)
        /\ r.evaluated = {}
        /\ r.value = <<>>

\* C4: for every input_type other than binary and multinomial, calculate_loss
\* and calculate_loss_array raise an error whose message names the value,
\* before any loss formula is evaluated, and return nothing.
C4_UnrecognizedTypeRaises ==
    args.input_type \notin Recognized =>
        DispatchRejects(ret_loss) /\ DispatchRejects(ret_array)

C4_Witness ==
    /\ args.input_type = "foo"
    /\ ret_loss.status = "raised"
    /\ ret_array.status = "raised"

-----------------------------------------------------------------------------
(* Properties of the boosted loss *)

FirstPath == first_component \/ (inp.z_G.is_none /\ inp.G_ldj.is_none)

\* log g(z|x) of example i: the new component's base density minus its ldj
LogG(i) == log_normal_diag(inp.z_g[1], inp.z_mu, safe_log(inp.z_var))[i] - inp.g_ldj[i]

\* the fixed components' log-likelihood of example i, clamped below
LogGFixed(i) ==
    Max(log_normal_diag(inp.z_G.v[1], inp.z_mu, safe_log(inp.z_var))[i] - inp.G_ldj.v[i],
        ClampFloor)

\* C5: on the first-component path (first_component, or z_G and G_ldj both
\* None) boosted_binary_neg_elbo returns log_G_z = 0, log_ratio = 0 and as
\* entropy the unweighted sum of log g(z|x) over the batch size.
C5_FirstComponentPath ==
    (args.input_type = "binary" /\ ret_boosted.status # "none" /\ FirstPath) =>
        /\ ret_boosted.status = "returned"
        /\ RatIsZero(ret_boosted.value.log_G_z)
        /\ RatIsZero(ret_boosted.value.log_ratio)
        /\ RatEq(ret_boosted.value.entropy,
                 Div(SumSeq([i \in 1..BatchSize |-> LogG(i)]), BatchSize))

C5_Witness ==
    /\ args.input_type = "binary"
    /\ args.regularization_rate = 2
    /\ first_component
    /\ ~inp.z_G.is_none
    /\ BatchSize >= 2
    /\ ret_boosted.status = "returned"
    /\ ret_boosted.value.entropy.num # 0

\* C7: on the later-component path log_ratio is (1/N) times the sum over the
\* examples i of LogGFixed(i) - LogG(i): each example's fixed-component term
\* enters the sum once.
C7_LogRatioPerExample ==
    (/\ args.input_type = "binary"
     /\ ~first_component
     /\ ~inp.z_G.is_none
     /\ ~inp.G_ldj.is_none
     /\ ret_boosted.status # "none")
    => /\ ret_boosted.status = "returned"
       /\ RatEq(ret_boosted.value.log_ratio,
                Div(SumSeq([i \in 1..BatchSize |-> LogGFixed(i) - LogG(i)]), BatchSize))

\* C8: calculate_boosted_loss with an input_type other than binary raises a
\* ValueError naming the value, evaluates no loss formula and returns nothing.
C8_BoostedDispatchRaisesValueError ==
    (args.input_type # "binary" /\ ret_boosted.status # "none") =>
        /\ ret_boosted.status = "raised"
        /\ ret_boosted.exc = "ValueError"
        /\ Names(ret_boosted, args.input_type)
        /\ ret_boosted.evaluated = {}

-----------------------------------------------------------------------------
(* models.transformations.RealNVP, models.layers: the coupling step and its  *)
(* function blocks.  Vectors are sequences over Z_P.                         *)

P == 5
G == 2

\* exp(s) in Z_P: G^s, with exp(-s) the multiplicative inverse of exp(s)
RECURSIVE Pow(_, _)
Pow(b, e) == IF e = 0 THEN 1 ELSE (b * Pow(b, e - 1)) % P
Exp(s) == Pow(G, s % (P - 1))

Families == {"TanhNet", "ReLUNet", "ResidualNet"}
FamilyWeight(f) == CASE f = "TanhNet" -> 1 [] f = "ReLUNet" -> 2 [] OTHER -> 3

\* base_network(in_dim, out_dim, h_size, num_base_layers): a function block
Net(family, in_dim, out_dim, id) ==
    [family |-> family, in_dim |-> in_dim, out_dim |-> out_dim, id |-> id]

\* a block accepts only vectors of the size it was built for
Fits(net, v) == Len(v) = net.in_dim

\* the block's output on v, a vector of net.out_dim values below m
Apply(net, v, m) ==
    [i \in 1..net.out_dim |-> (FamilyWeight(net.family) * SumSeq(v) + net.id + i) % m]

\* the split of a vector of size d: the sizes of the conditioning (first)
\* and of the other (second) half under a parity flag
FirstSize(d, flip) == IF flip = 1 THEN d - (d \div 2) ELSE d \div 2
SecondSize(d, flip) == d - FirstSize(d, flip)

Lower(z) == SubSeq(z, 1, Len(z) \div 2)
Upper(z) == SubSeq(z, (Len(z) \div 2) + 1, Len(z))
First(z, flip) == IF flip = 1 THEN Upper(z) ELSE Lower(z)
Second(z, flip) == IF flip = 1 THEN Lower(z) ELSE Upper(z)
Join(first, second, flip) == IF flip = 1 THEN second \o first ELSE first \o second

\* v * exp(s) + t, elementwise
Affine(v, s, t) == [i \in 1..Len(v) |-> (v[i] * Exp(s[i]) + t[i]) % P]
\* (v - t) / exp(s), elementwise
AffineInv(v, s, t) == [i \in 1..Len(v) |-> ((v[i] - t[i]) * Exp(0 - s[i])) % P]

\* BatchNorm(z_size), frozen: an elementwise affine map with log-scale 1, shift 1
BnLogScale(d) == [i \in 1..d |-> 1]
BnShift(d) == [i \in 1..d |-> 1]

ShapeError == [ok |-> FALSE, z |-> <<>>, ldj |-> 0]

\* RealNVP.forward(z, [flow_param_k, flip]): both halves are transformed in
\* turn, the first conditioning the second, then the new second the first
RealNVP_forward(z, flow_k_networks) ==
    LET nets == flow_k_networks[1].nets
        flip == flow_k_networks[2]
        first == First(z, flip)
        second == Second(z, flip)
        t1 == Apply(nets[1], first, P)
        s1 == Apply(nets[2], first, P - 1)
        second2 == Affine(second, s1, t1)
        t2 == Apply(nets[3], second2, P)
        s2 == Apply(nets[4], second2, P - 1)
        first2 == Affine(first, s2, t2)
        z2 == Join(first2, second2, flip)
        ldj == SumSeq(s1) + SumSeq(s2)
        bn == flow_k_networks[1].batch_norm
        d == Len(z)
    IN  IF ~(Fits(nets[1], first) /\ Fits(nets[2], first)
             /\ nets[1].out_dim = Len(second) /\ nets[2].out_dim = Len(second)
             /\ Fits(nets[3], second) /\ Fits(nets[4], second)
             /\ nets[3].out_dim = Len(first) /\ nets[4].out_dim = Len(first))
        THEN ShapeError
        ELSE IF bn
        THEN [ok |-> TRUE, z |-> Affine(z2, BnLogScale(d), BnShift(d)),
              ldj |-> ldj + SumSeq(BnLogScale(d))]
        ELSE [ok |-> TRUE, z |-> z2, ldj |-> ldj]

\* RealNVP.inverse(z, [flow_param_k, flip]): the two half-steps undone in
\* reverse order
RealNVP_inverse(z, flow_k_networks) ==
    LET nets == flow_k_networks[1].nets
        flip == flow_k_networks[2]
        bn == flow_k_networks[1].batch_norm
        d == Len(z)
        z1 == IF bn THEN AffineInv(z, BnLogScale(d), BnShift(d)) ELSE z
        first2 == First(z1, flip)
        second2 == Second(z1, flip)
        t2 == Apply(nets[3], second2, P)
        s2 == Apply(nets[4], second2, P - 1)
        first == AffineInv(first2, s2, t2)
        t1 == Apply(nets[1], first, P)
        s1 == Apply(nets[2], first, P - 1)
        second == AffineInv(second2, s1, t1)
        ldj == 0 - (SumSeq(s1) + SumSeq(s2)) - (IF bn THEN SumSeq(BnLogScale(d)) ELSE 0)
    IN  IF ~(Fits(nets[1], first2) /\ Fits(nets[2], first2)
             /\ nets[1].out_dim = Len(second2) /\ nets[2].out_dim = Len(second2)
             /\ Fits(nets[3], second2) /\ Fits(nets[4], second2)
             /\ nets[3].out_dim = Len(first2) /\ nets[4].out_dim = Len(first2))
        THEN ShapeError
        ELSE [ok |-> TRUE, z |-> Join(first, second, flip), ldj |-> ldj]

-----------------------------------------------------------------------------
(* src/models/realnvp.py: RealNVPFlow *)

\* the function-block classes args.base_network may resolve to
BaseNetworks(base_network) ==
    CASE base_network = "relu" -> {"ReLUNet"}
      [] base_network = "residual" -> {"ResidualNet"}
      [] base_network = "random" -> {"TanhNet", "ReLUNet"}
      [] OTHER -> {"TanhNet"}

\* layer k of RealNVPFlow.__init__ (k counts from 0), built with class fam
RealNVPFlow_layer(z_size, k, flip_init, fam, batch_norm) ==
    LET flipped == ((k + flip_init) % 2) > 0
        out_dim == IF flipped THEN z_size \div 2 ELSE z_size - (z_size \div 2)
        in_dim == IF flipped THEN z_size - (z_size \div 2) ELSE z_size \div 2
    IN  [nets |-> <<Net(fam, in_dim, out_dim, 4 * k),
                    Net(fam, in_dim, out_dim, 4 * k + 1),
                    Net(fam, out_dim, in_dim, 4 * k + 2),
                    Net(fam, out_dim, in_dim, 4 * k + 3)>>,
         batch_norm |-> batch_norm,
         flipped |-> IF flipped THEN 1 ELSE 0]

RealNVPFlow_init(z_size, num_flows, flip_init, fams, batch_norm) ==
    [kind |-> "RealNVPFlow", z_size |-> z_size, num_flows |-> num_flows,
     flip_init |-> flip_init,
     flow_param |-> [j \in 1..num_flows |->
                        RealNVPFlow_layer(z_size, j - 1, flip_init, fams[j], batch_norm)],
     prior_h |-> [i \in 1..(2 * z_size) |-> 0]]

\* prior(data): the zero buffer split into its two halves
prior(m) == <<SubSeq(m.prior_h, 1, m.z_size), SubSeq(m.prior_h, m.z_size + 1, 2 * m.z_size)>>

\* the loop of encode from layer k on: Z[k] = z, log_det_j = acc, calls made so far
RECURSIVE EncodeLoop(_, _, _, _, _)
EncodeLoop(m, k, z, acc, calls) ==
    IF k >= m.num_flows
    THEN [ok |-> TRUE, z |-> z, log_det_j |-> acc, calls |-> calls]
    ELSE LET flow_k_networks == <<m.flow_param[k + 1], k % 2>>
             call == [layer |-> k, flip |-> k % 2]
             r == RealNVP_forward(z, flow_k_networks)
         IN  IF ~r.ok
             THEN [ok |-> FALSE, z |-> <<>>, log_det_j |-> acc, calls |-> Append(calls, call)]
             ELSE EncodeLoop(m, k + 1, r.z, acc + r.ldj, Append(calls, call))

RealNVPFlow_encode(m, x) ==
    LET r == EncodeLoop(m, 0, x, 0, <<>>)
        pr == prior(m)
    IN  IF r.ok
        THEN Returned([ret |-> <<r.z, pr[1], pr[2], r.log_det_j, None>>,
                       log_det_j |-> r.log_det_j],
                      r.calls)
        ELSE Raised("RuntimeError", <<"size mismatch">>, r.calls)

\* the loop of decode from k down to 1: Z[k] = z
RECURSIVE DecodeLoop(_, _, _, _, _)
DecodeLoop(m, k, z, acc, calls) ==
    IF k <= 0
    THEN [ok |-> TRUE, z |-> z, log_det_j |-> acc, calls |-> calls]
    ELSE LET flow_k_networks == <<m.flow_param[k], k % 2>>
             call == [layer |-> k - 1, flip |-> k % 2]
             r == RealNVP_inverse(z, flow_k_networks)
         IN  IF ~r.ok
             THEN [ok |-> FALSE, z |-> <<>>, log_det_j |-> acc, calls |-> Append(calls, call)]
             ELSE DecodeLoop(m, k - 1, r.z, acc + r.ldj, Append(calls, call))

\* decode(z, y_onehot, temperature) with z given; it returns Z[0] alone, the
\* accumulated log_det_j stays a local of the call
RealNVPFlow_decode(m, z) ==
    LET r == DecodeLoop(m, m.num_flows, z, 0, <<>>)
    IN  IF r.ok
        THEN Returned([ret |-> <<r.z>>, log_det_j |-> r.log_det_j], r.calls)
        ELSE Raised("RuntimeError", <<"size mismatch">>, r.calls)

-----------------------------------------------------------------------------
(* src/models/realnvp.py: RealNVPVAE *)

\* the function-block class RealNVPVAE.__init__ resolves args.base_network to
RealNVPVAE_base_network(base_network) ==
    CASE base_network = "relu" -> "ReLUNet"
      [] base_network = "residual" -> "ResidualNet"
      [] OTHER -> "TanhNet"

RealNVPVAE_layer(z_size, k, fam, batch_norm) ==
    LET in_dim == z_size \div 2
        out_dim == z_size - (z_size \div 2)
    IN  [nets |-> [j \in 1..4 |-> Net(fam, in_dim, out_dim, 4 * k + j - 1)],
         batch_norm |-> batch_norm,
         flipped |-> 0]

RealNVPVAE_init(z_size, num_flows, fam, batch_norm) ==
    [kind |-> "RealNVPVAE", z_size |-> z_size, num_flows |-> num_flows,
     flip_init |-> 0,
     flow_param |-> [j \in 1..num_flows |-> RealNVPVAE_layer(z_size, j - 1, fam, batch_norm)],
     prior_h |-> <<>>]

\* the parity flag flow passes with flow_param[k]
RealNVPVAE_parity(k) == k % 2

RECURSIVE FlowLoop(_, _, _, _, _)
FlowLoop(m, k, z, acc, calls) ==
    IF k >= m.num_flows
    THEN [ok |-> TRUE, z |-> z, log_det_j |-> acc, calls |-> calls]
    ELSE LET flow_k_networks == <<m.flow_param[k + 1], RealNVPVAE_parity(k)>>
             call == [layer |-> k, flip |-> RealNVPVAE_parity(k)]
             r == RealNVP_forward(z, flow_k_networks)
         IN  IF ~r.ok
             THEN [ok |-> FALSE, z |-> <<>>, log_det_j |-> acc, calls |-> Append(calls, call)]
             ELSE FlowLoop(m, k + 1, r.z, acc + r.ldj, Append(calls, call))

RealNVPVAE_flow(m, z_0) ==
    LET r == FlowLoop(m, 0, z_0, 0, <<>>)
    IN  IF r.ok
        THEN Returned([ret |-> <<r.z, r.log_det_j>>, log_det_j |-> r.log_det_j], r.calls)
        ELSE Raised("RuntimeError", <<"size mismatch">>, r.calls)

-----------------------------------------------------------------------------
(* The flow models as a state machine: Init constructs a model and draws    *)
(* the input, the actions are the passes.                                   *)

MaxDim == 3
MaxFlows == 2

BaseNetworkOptions == {"relu", "residual", "random", "tanh"}

Vectors(d) == [1..d -> 0..(P - 1)]

LossIdle ==
    /\ args = [input_type |-> "binary", regularization_rate |-> 1]
    /\ inp = <<>>
    /\ beta = 1
    /\ first_component = TRUE
    /\ ret_loss = NotCalled
    /\ ret_array = NotCalled
    /\ ret_boosted = NotCalled

InitFlow ==
    /\ LossIdle
    /\ \E d \in 2..MaxDim : \E K \in 1..MaxFlows : \E bn \in BOOLEAN :
       \E b \in BaseNetworkOptions :
          /\ \/ \E flip_init \in {0, 1} : \E fams \in [1..K -> BaseNetworks(b)] :
                   model = RealNVPFlow_init(d, K, flip_init, fams, bn)
             \/ model = RealNVPVAE_init(d, K, RealNVPVAE_base_network(b), bn)
          /\ x_in \in Vectors(d)
    /\ ret_encode = NoPass
    /\ ret_decode = NoPass
    /\ ret_flow = NoPass

Encode ==
    /\ model.kind = "RealNVPFlow"
    /\ ret_encode = NoPass
    /\ ret_encode' = RealNVPFlow_encode(model, x_in)
    /\ UNCHANGED <<lossVars, model, x_in, ret_decode, ret_flow>>

\* decode on the z_K encode returned
Decode ==
    /\ model.kind = "RealNVPFlow"
    /\ ret_encode.status = "returned"
    /\ ret_decode = NoPass
    /\ ret_decode' = RealNVPFlow_decode(model, ret_encode.value.ret[1])
    /\ UNCHANGED <<lossVars, model, x_in, ret_encode, ret_flow>>

Flow ==
    /\ model.kind = "RealNVPVAE"
    /\ ret_flow = NoPass
    /\ ret_flow' = RealNVPVAE_flow(model, x_in)
    /\ UNCHANGED <<lossVars, model, x_in, ret_encode, ret_decode>>

NextFlow == Encode \/ Decode \/ Flow

SpecFlow == InitFlow /\ [][NextFlow]_vars

-----------------------------------------------------------------------------
(* Properties of the flow models *)

\* The coupling step undoes itself when inverted with the parity flag it was
\* applied with: the ground the round trip of a whole flow stands on.
StepInvertsItself ==
    \A flip \in {0, 1} : \A bn \in BOOLEAN :
        LET layer == RealNVPFlow_layer(model.z_size, 0, flip, "TanhNet", bn)
            f == RealNVP_forward(x_in, <<layer, flip>>)
            i == RealNVP_inverse(f.z, <<layer, flip>>)
        IN  f.ok /\ i.ok /\ i.z = x_in /\ f.ldj + i.ldj = 0

\* the parity flag encode passed with layer j
SameCallInEncode(c) ==
    \E i \in 1..Len(ret_encode.evaluated) :
        /\ ret_encode.evaluated[i].layer = c.layer
        /\ ret_encode.evaluated[i].flip = c.flip

\* C1: decode called with the z_K encode(x) returned gives x back; every
\* layer is inverted with the parameters and the parity flag encode applied
\* it with.
C1_DecodeInvertsEncode ==
    ret_decode.status # "none" =>
        /\ ret_decode.status = "returned"
        /\ ret_decode.value.ret[1] = x_in
        /\ \A i \in 1..Len(ret_decode.evaluated) : SameCallInEncode(ret_decode.evaluated[i])

\* C6: the inverse pass returns z_0 together with its total ldj, and that ldj
\* is the negation of the ldj the forward pass returned.
C6_InverseLdjNegatesForward ==
    ret_decode.status # "none" =>
        /\ ret_decode.status = "returned"
        /\ Len(ret_decode.value.ret) = 2
        /\ ret_encode.value.ret[4] + ret_decode.value.ret[2] = 0

BuiltParity(c) == model.flow_param[c.layer + 1].flipped

\* C9: the parity flag encode and decode pass with flow_param[k] is the
\* parity (k + flip_init) % 2 the blocks of layer k were built for.
C9_ParityAsBuilt ==
    model.kind = "RealNVPFlow" =>
        /\ \A i \in 1..Len(ret_encode.evaluated) :
              ret_encode.evaluated[i].flip = BuiltParity(ret_encode.evaluated[i])
        /\ \A i \in 1..Len(ret_decode.evaluated) :
              ret_decode.evaluated[i].flip = BuiltParity(ret_decode.evaluated[i])

\* C10: in RealNVPVAE every block of layer k takes a vector of the size of
\* the half held fixed under parity k % 2 and gives one of the size of the
\* half being transformed, the two sizes summing to D.
C10_BlockDimsPerParity ==
    (model.kind = "RealNVPVAE" /\ ret_flow.status # "none") =>
        \A k \in 0..(model.num_flows - 1) : \A j \in 1..4 :
            LET net == model.flow_param[k + 1].nets[j]
                flip == RealNVPVAE_parity(k)
            IN  /\ net.in_dim = FirstSize(model.z_size, flip)
                /\ net.out_dim = SecondSize(model.z_size, flip)
                /\ net.in_dim + net.out_dim = model.z_size

====
